---- MODULE Spec2Model ----
(***************************************************************************)
(* Model of the servo controller firmware: the framed serial protocol      *)
(* (protocol.h), the receive buffer and frame scan (processSerial), the    *)
(* command dispatcher (handlePacket) and the control loop with its serial  *)
(* timeout (loop).                                                         *)
(*                                                                         *)
(* One pass of loop() is three kinds of step:                              *)
(*   LoopBegin   now = millis(); the drain loop of processSerial           *)
(*   ScanStep    one iteration of the frame-scanning while loop            *)
(*   LoopFinish  the compaction at the end of processSerial and the rest   *)
(*               of loop(): timeout check, drive, telemetry, heartbeat,    *)
(*               loop-rate measurement and pacing                          *)
(*                                                                         *)
(* 32-bit millisecond values are pairs <<hi, lo>> of 16-bit halves, so     *)
(* that unsigned arithmetic modulo 2^32 is exact.                          *)
(***************************************************************************)
EXTENDS Integers, Sequences, FiniteSets

\* ------------------------------------------------------------ protocol.h
PROTO_HEADER_0 == 170
PROTO_HEADER_1 == 85
PROTO_MAX_PAYLOAD == 16
CMD_SET_STEERING == 1
CMD_SET_GAIN == 2
CMD_SET_ENABLE == 3
CMD_TELEMETRY == 16
CMD_FAULT == 17
CMD_HEARTBEAT == 240
FAULT_NONE == 0
FAULT_SERIAL_TIMEOUT == 1

\* -------------------------------------------------------------- config.h
SERVO_FREQ_HZ == 50
SERVO_MIN_US == 500
SERVO_MAX_US == 2500
CONTROL_LOOP_HZ == 50
SERIAL_TIMEOUT_MS == 1000
TELEMETRY_INTERVAL_MS == 20
HEARTBEAT_INTERVAL_MS == 500
DEFAULT_GAIN == 50

\* ------------------------------------------------------- firmware globals
\* sizeof(rx_buf)
RX_SIZE == 64
LEDC_RESOLUTION == 16
\* the window of the loop-rate measurement, loop()
LOOP_RATE_WINDOW_MS == 1000
\* the resolution set by analogReadResolution(12): samples are 0..4095
ADC_MAX == 4095

\* ------------------------------------------------------------ the bounds
\* passes of loop() explored
MaxTicks == 4
\* packets handed to handlePacket over a run (caps the history)
MaxDispatched == 4

\* ---------------------------------------------------- integer arithmetic
Min(a, b) == IF a < b THEN a ELSE b

Max(a, b) == IF a > b THEN a ELSE b

\* C's integer division truncates towards zero
TruncDiv(a, b) == IF a >= 0 THEN a \div b ELSE -((-a) \div b)

\* the conversion to uint8_t
U8(x) == x % 256

\* the conversion of a 16-bit pattern to int16_t
ToInt16(x) == IF x % 65536 >= 32768 THEN (x % 65536) - 65536 ELSE x % 65536

\* the 16-bit pattern of an int16_t
FromInt16(x) == (x + 65536) % 65536

RECURSIVE Xor(_, _)
\* bitwise exclusive or of two naturals
Xor(a, b) ==
    IF a = 0 THEN b
    ELSE IF b = 0 THEN a
    ELSE (((a % 2) + (b % 2)) % 2) + 2 * Xor(a \div 2, b \div 2)

\* ----------------------------------------------- uint32_t as <<hi, lo>>
T32(hi, lo) == <<hi, lo>>

\* a + d modulo 2^32, for 0 <= d < 65536
Add32(a, d) ==
    <<(a[1] + ((a[2] + d) \div 65536)) % 65536, (a[2] + d) % 65536>>

\* a - b modulo 2^32 (unsigned subtraction)
Sub32(a, b) ==
    LET borrow == IF a[2] < b[2] THEN 1 ELSE 0
    IN  <<(a[1] - b[1] - borrow + 65536) % 65536, (a[2] - b[2] + 65536) % 65536>>

\* a > c and a >= c and a < c, for a constant 0 <= c < 65536
Gt32(a, c) == a[1] > 0 \/ a[2] > c

Ge32(a, c) == a[1] > 0 \/ a[2] >= c

Lt32(a, c) == a[1] = 0 /\ a[2] < c

\* ---------------------------------------------------------------- crc8
\* one pass of the inner loop: crc = (crc & 0x80) ? (crc << 1) ^ 0x07 : (crc << 1)
CrcShift(crc) ==
    IF crc >= 128 THEN Xor(U8(crc * 2), 7) ELSE U8(crc * 2)

RECURSIVE CrcBits(_, _)
\* j passes of the inner loop
CrcBits(crc, j) == IF j = 0 THEN crc ELSE CrcBits(CrcShift(crc), j - 1)

\* the eight shifts of the inner loop, tabulated over the byte values
CrcTable == [c \in 0..255 |-> CrcBits(c, 8)]

\* crc ^= data[i], then the eight shifts
CrcByte(crc, b) == CrcTable[Xor(crc, b)]

RECURSIVE CrcRange(_, _, _, _)
\* the outer loop over data[lo..hi] in order, from the running value crc. The
\* range is halved, and the first half's value tested (it is never negative),
\* only to keep the evaluation shallow: the bytes are taken one after the other
CrcRange(data, crc, lo, hi) ==
    IF lo > hi THEN crc
    ELSE IF lo = hi THEN CrcByte(crc, data[lo])
    ELSE LET mid == (lo + hi) \div 2
             first == CrcRange(data, crc, lo, mid)
         IN  IF first >= 0 THEN CrcRange(data, first, mid + 1, hi) ELSE first

\* crc8(data, len): CRC-8, polynomial 0x07, over the first len bytes of data
crc8(data, len) == CrcRange(data, 0, 1, len)

\* ----------------------------------------------------------- sendPacket
\* the bytes sendPacket(cmd, payload, len) writes to Serial, len <= 16
sendPacket(cmd, payload, len) ==
    LET body == <<cmd, len>> \o SubSeq(payload, 1, len)
    IN  <<PROTO_HEADER_0, PROTO_HEADER_1>> \o body \o <<crc8(body, 2 + len)>>

\* sendTelemetry(): angle and loop rate, both little-endian
sendTelemetry(angle, rate) ==
    sendPacket(CMD_TELEMETRY,
               <<FromInt16(angle) % 256, FromInt16(angle) \div 256,
                 rate % 256, rate \div 256>>, 4)

\* sendFault(code)
sendFault(code) == sendPacket(CMD_FAULT, <<code>>, 1)

\* ---------------------------------------------------------------- servo
\* microsToTicks: us * 2^16 * 50 / 1000000 in 64 bits; the fraction is
\* reduced to 2048/625 so that the product stays small
microsToTicks(us) == (us * 2048) \div 625

\* constrain(us, SERVO_MIN_US, SERVO_MAX_US)
constrain(x, lo, hi) == IF x < lo THEN lo ELSE IF x > hi THEN hi ELSE x

\* the duty servoWriteUs(us) writes to the LEDC channel
servoWriteUs(us) == microsToTicks(constrain(us, SERVO_MIN_US, SERVO_MAX_US))

\* the duty servoDisable() writes: no pulses, servo relaxed
servoDisable == 0

\* Arduino map(x, in_min, in_max, out_min, out_max) in long arithmetic
map(x, in_min, in_max, out_min, out_max) ==
    TruncDiv((x - in_min) * (out_max - out_min), in_max - in_min) + out_min

\* mutant of positionToUs: the gain taken as a fraction of 50
positionToUs_HalfDivisor(pos, g) ==
    LET deflection == TruncDiv(pos * g, 50)
    IN  map(deflection, -32768, 32767, SERVO_MIN_US, SERVO_MAX_US)

\* positionToUs(pos) with the current gain g
positionToUs(pos, g) ==
    LET deflection == TruncDiv(pos * g, 100)
    IN  map(deflection, -32768, 32767, SERVO_MIN_US, SERVO_MAX_US)

\* -------------------------------------------------------- handlePacket
\* mutant of GainClamp: the byte taken as it is
GainClamp_None(v) == v

\* gain = min(payload[0], (uint8_t)100)
GainClamp(v) == Min(v, 100)

\* servo_enabled = payload[0] != 0
EnableValue(v) == v # 0

\* commanded_pos = (int16_t)(payload[0] | (payload[1] << 8))
SteeringValue(p0, p1) == ToInt16(p0 + 256 * p1)

\* mutant of SteeringHasPayload: one byte taken for enough
SteeringHasPayload_One(len) == len >= 1

\* the length a command needs before its payload is read
SteeringHasPayload(len) == len >= 2

GainHasPayload(len) == len >= 1

\* mutant of EnableHasPayload: an empty payload taken for enough
EnableHasPayload_Any(len) == len >= 0

EnableHasPayload(len) == len >= 1

\* mutant of handlePacket: last_cmd_time written only by a command that
\* takes effect
handlePacket_TimerOnEffect(c, cmd, p0, p1, len, t) ==
    CASE cmd = CMD_SET_STEERING /\ SteeringHasPayload(len) ->
            [c EXCEPT !.last_cmd_time = t,
                      !.commanded_pos = SteeringValue(p0, p1)]
      [] cmd = CMD_SET_GAIN /\ GainHasPayload(len) ->
            [c EXCEPT !.last_cmd_time = t, !.gain = GainClamp(p0)]
      [] cmd = CMD_SET_ENABLE /\ EnableHasPayload(len) ->
            [c EXCEPT !.last_cmd_time = t,
                      !.servo_enabled = EnableValue(p0),
                      !.ledc = IF EnableValue(p0) THEN c.ledc ELSE servoDisable]
      [] cmd = CMD_HEARTBEAT -> [c EXCEPT !.last_cmd_time = t]
      [] OTHER -> c

\* mutant of handlePacket: SetEnable with a zero byte toggles servo_enabled
handlePacket_Toggle(c, cmd, p0, p1, len, t) ==
    LET c1 == [c EXCEPT !.last_cmd_time = t]
        en == IF EnableValue(p0) THEN TRUE ELSE ~c.servo_enabled
    IN  CASE cmd = CMD_SET_STEERING /\ SteeringHasPayload(len) ->
                [c1 EXCEPT !.commanded_pos = SteeringValue(p0, p1)]
          [] cmd = CMD_SET_GAIN /\ GainHasPayload(len) ->
                [c1 EXCEPT !.gain = GainClamp(p0)]
          [] cmd = CMD_SET_ENABLE /\ EnableHasPayload(len) ->
                [c1 EXCEPT !.servo_enabled = en,
                           !.ledc = IF en THEN c1.ledc ELSE servoDisable]
          [] OTHER -> c1

\* mutant of handlePacket: disabling without servoDisable()
handlePacket_NoRelax(c, cmd, p0, p1, len, t) ==
    LET c1 == [c EXCEPT !.last_cmd_time = t]
    IN  CASE cmd = CMD_SET_STEERING /\ SteeringHasPayload(len) ->
                [c1 EXCEPT !.commanded_pos = SteeringValue(p0, p1)]
          [] cmd = CMD_SET_GAIN /\ GainHasPayload(len) ->
                [c1 EXCEPT !.gain = GainClamp(p0)]
          [] cmd = CMD_SET_ENABLE /\ EnableHasPayload(len) ->
                [c1 EXCEPT !.servo_enabled = EnableValue(p0)]
          [] OTHER -> c1

\* handlePacket(cmd, payload, len) at time t = millis(), on the fields it can
\* change (c: servo_enabled, commanded_pos, gain, ledc, last_cmd_time);
\* p0 and p1 are payload[0] and payload[1]
handlePacket(c, cmd, p0, p1, len, t) ==
    LET c1 == [c EXCEPT !.last_cmd_time = t]
    IN  CASE cmd = CMD_SET_STEERING ->
                IF SteeringHasPayload(len)
                THEN [c1 EXCEPT !.commanded_pos = SteeringValue(p0, p1)]
                ELSE c1
          [] cmd = CMD_SET_GAIN ->
                IF GainHasPayload(len)
                THEN [c1 EXCEPT !.gain = GainClamp(p0)]
                ELSE c1
          [] cmd = CMD_SET_ENABLE ->
                IF EnableHasPayload(len)
                THEN [c1 EXCEPT !.servo_enabled = EnableValue(p0),
                                !.ledc = IF EnableValue(p0) THEN c1.ledc
                                         ELSE servoDisable]
                ELSE c1
          [] OTHER -> c1

\* ------------------------------------------------ processSerial, helpers
\* mutant of OverflowAt: > in place of >=
OverflowAt_Late(pos) == pos > RX_SIZE

\* rx_pos >= sizeof(rx_buf): the overflow protection of the drain loop
OverflowAt(pos) == pos >= RX_SIZE

\* rx_buf[i] = b; a store outside the array leaves the array as it is
Store(buf, i, b) == IF i < RX_SIZE THEN [buf EXCEPT ![i] = b] ELSE buf

\* mutant of DrainByte: the byte that meets the full buffer is dropped
DrainByte_DropOnReset(st, b) ==
    IF OverflowAt(st.pos)
    THEN [st EXCEPT !.pos = 0, !.fed = st.fed + 1, !.resets = st.resets + 1,
                    !.last_reset = st.fed + 1]
    ELSE [st EXCEPT !.buf = Store(st.buf, st.pos, b), !.pos = U8(st.pos + 1),
                    !.fed = st.fed + 1,
                    !.max_write = Max(st.max_write, st.pos)]

\* one pass of the drain loop: if (rx_pos >= sizeof) rx_pos = 0; rx_buf[rx_pos++] = b.
\* Beside buf and pos the record carries the history of the drain: fed counts
\* the bytes read, resets the resets, last_reset is the number (from 1) of the
\* byte whose arrival made the latest reset, max_write the highest index
\* stored to
DrainByte(st, b) ==
    LET p == IF OverflowAt(st.pos) THEN 0 ELSE st.pos
    IN  [buf |-> Store(st.buf, p, b),
         pos |-> U8(p + 1),
         fed |-> st.fed + 1,
         resets |-> st.resets + (IF OverflowAt(st.pos) THEN 1 ELSE 0),
         last_reset |-> IF OverflowAt(st.pos) THEN st.fed + 1 ELSE st.last_reset,
         max_write |-> Max(st.max_write, p)]

RECURSIVE Drain(_, _, _, _)
\* while (Serial.available()) {...} over the arrived bytes[lo..hi] in order.
\* The range is halved, and the first half's cursor tested (it is never
\* negative), only to keep the evaluation shallow
Drain(st, bytes, lo, hi) ==
    IF lo > hi THEN st
    ELSE IF lo = hi THEN DrainByte(st, bytes[lo])
    ELSE LET mid == (lo + hi) \div 2
             first == Drain(st, bytes, lo, mid)
         IN  IF first.pos >= 0 THEN Drain(first, bytes, mid + 1, hi) ELSE first

\* mutant of ScanGuard: the scan loop entered only at the buffer's start
ScanGuard_Once(s, pos) == s = 0 /\ s + 4 < pos

\* mutant of ScanGuard: one byte more asked for
ScanGuard_Late(s, pos) == s + 5 < pos

\* the loop condition search + 4 < rx_pos
ScanGuard(s, pos) == s + 4 < pos

\* rx_buf[search] == PROTO_HEADER_0 && rx_buf[search + 1] == PROTO_HEADER_1
HeaderAt(buf, s) == buf[s] = PROTO_HEADER_0 /\ buf[s + 1] = PROTO_HEADER_1

\* uint8_t total = 5 + plen
FrameTotal(plen) == U8(5 + plen)

\* mutant of CrcDataLen: the length byte left out of the checksum span
CrcDataLen_Short(plen) == U8(1 + plen)

\* uint8_t crc_data_len = 2 + plen
CrcDataLen(plen) == U8(2 + plen)

\* search + total > rx_pos: need more data
NeedMore(s, total, pos) == s + total > pos

\* n bytes of the buffer from index from, as a sequence
BufSeq(buf, from, n) == [i \in 1..n |-> buf[from + i - 1]]

\* whether every byte the checksum test reads lies inside rx_buf; the last
\* one read is rx_buf[search + 4 + plen]
CrcReadsInside(s, plen) == s + 4 + plen < RX_SIZE

\* the highest index of rx_buf one iteration of the scan loop at s reads: the
\* first header byte alone when it does not match (|| does not evaluate its
\* right side), the second header byte, the length byte when the frame is
\* incomplete, else the bytes crc8 covers and the trailing byte
ReadsUpTo(buf, s, pos) ==
    IF buf[s] # PROTO_HEADER_0 THEN s
    ELSE IF buf[s + 1] # PROTO_HEADER_1 THEN s + 1
    ELSE IF NeedMore(s, FrameTotal(buf[s + 3]), pos) THEN s + 3
    ELSE Max(s + 1 + CrcDataLen(buf[s + 3]), s + 4 + buf[s + 3])

\* mutant of CrcAccepts: the checksum test left out
CrcAccepts_Always(expected, actual) == TRUE

\* expected == actual
CrcAccepts(expected, actual) == expected = actual

\* the outcomes of the checksum test of the frame at s. With every read
\* inside the array it is the comparison; a read beyond the array is
\* undefined and the test may come out either way
CrcOutcomes(buf, s, plen) ==
    IF CrcReadsInside(s, plen)
    THEN {CrcAccepts(crc8(BufSeq(buf, s + 2, CrcDataLen(plen)), CrcDataLen(plen)),
                     buf[s + 4 + plen])}
    ELSE BOOLEAN

\* values a read beyond the array may yield
UndefinedBytes == {0, 255}

\* the values payload[k] may yield for the payload pointer &rx_buf[s + 4]
PayloadByte(buf, s, k) ==
    IF s + 4 + k < RX_SIZE THEN {buf[s + 4 + k]} ELSE UndefinedBytes

\* memmove(rx_buf, &rx_buf[search], remaining)
Shift(buf, s, remaining) ==
    [i \in 0..(RX_SIZE - 1) |->
        IF i < remaining /\ s + i < RX_SIZE THEN buf[s + i] ELSE buf[i]]

\* ------------------------------------------------------------ loop, helpers
\* mutant of TimedOut: >= in place of >
TimedOut_AtThreshold(t, last) == Ge32(Sub32(t, last), SERIAL_TIMEOUT_MS)

\* now - last_cmd_time > SERIAL_TIMEOUT_MS, unsigned
TimedOut(t, last) == Gt32(Sub32(t, last), SERIAL_TIMEOUT_MS)

\* if (servo_enabled && (now - last_cmd_time > SERIAL_TIMEOUT_MS))
MonitorTrips(en, t, last) == en /\ TimedOut(t, last)

\* mutant of FaultAfter: a pass whose check does not fire clears the fault
FaultAfter_Clears(trip, fault) ==
    IF trip THEN FAULT_SERIAL_TIMEOUT ELSE FAULT_NONE

\* fault_code after the timeout check: fault_code = FAULT_SERIAL_TIMEOUT in
\* the branch of the check, untouched otherwise
FaultAfter(trip, fault) == IF trip THEN FAULT_SERIAL_TIMEOUT ELSE fault

\* mutant of DriveOn: the drive step placed before the timeout check
DriveOn_BeforeCheck(before, after) == before

\* if (servo_enabled) at the drive step, which follows the timeout check:
\* before is servo_enabled as the check found it, after as the check left it
DriveOn(before, after) == after

\* now - last >= interval, unsigned
IntervalElapsed(t, last, interval) == Ge32(Sub32(t, last), interval)

\* analogRead(SERVO_ADC_PIN) samples
AdcSamples == {0, ADC_MAX}

\* uint32_t loop_period_ms = 1000 / CONTROL_LOOP_HZ
LoopPeriodMs == 1000 \div CONTROL_LOOP_HZ

\* ---------------------------------------------------------------- state
VARIABLES
    \* the firmware's globals
    servo_enabled, commanded_pos, gain, servo_angle_adc, loop_rate_hz,
    fault_code, last_cmd_time, last_telemetry_time, last_heartbeat_time,
    loop_count, loop_rate_timer, rx_buf, rx_pos,
    \* the locals of loop() and processSerial() and the position in loop()
    now, search, pc,
    \* the boundary: millis(), the duty last written to the LEDC channel, the
    \* bytes the host still has to deliver, the packets written to Serial by
    \* the latest pass of loop()
    clock, ledc, wire, tx,
    \* the environment of the run: the execution times a pass may take, the
    \* time that may pass before handlePacket reads millis(), the numbers of
    \* bytes that may arrive between two passes, the host's whole stream, the
    \* garbage it starts with and the packets its valid frames encode
    env,
    \* history: the packets handed to handlePacket, the passes of loop()
    \* started, the packets dispatched in the current pass, real time in ms
    \* since the initial state (now, at the start of the pass, at the latest
    \* dispatch), whether the latest pass drove the servo and whether its
    \* timeout check fired, and the history of the drain loop
    dispatched, ticks, tick_dispatches, elapsed_ms, now_ms, last_ms, drove,
    tripped, fed, resets, last_reset, max_write,
    \* more history: the iterations of the scan loop in the current pass, the
    \* resets of the drain loop in the current pass, and whether some pass's
    \* drain ended exactly where the garbage that starts the stream ends
    scan_iters, tick_resets, boundary_cut

ctl_vars == <<servo_enabled, commanded_pos, gain, ledc, last_cmd_time>>

timer_vars ==
    <<servo_angle_adc, loop_rate_hz, last_telemetry_time, last_heartbeat_time,
      loop_count, loop_rate_timer>>

rx_vars == <<rx_buf, rx_pos>>

drain_vars == <<fed, resets, last_reset, max_write, tick_resets, boundary_cut>>

vars ==
    <<servo_enabled, commanded_pos, gain, servo_angle_adc, loop_rate_hz,
      fault_code, last_cmd_time, last_telemetry_time, last_heartbeat_time,
      loop_count, loop_rate_timer, rx_buf, rx_pos, now, search, pc, clock,
      ledc, wire, tx, env, dispatched, ticks, tick_dispatches, elapsed_ms,
      now_ms, last_ms, drove, tripped, fed, resets, last_reset, max_write,
      scan_iters, tick_resets, boundary_cut>>

\* the fields handlePacket works on
Ctl ==
    [servo_enabled |-> servo_enabled, commanded_pos |-> commanded_pos,
     gain |-> gain, ledc |-> ledc, last_cmd_time |-> last_cmd_time]

\* ----------------------------------------------------------------- Init
\* the statics' initializers, the history and the boundary at rest
InitStatics ==
    /\ servo_enabled = FALSE
    /\ commanded_pos = 0
    /\ gain = DEFAULT_GAIN
    /\ fault_code = FAULT_NONE
    /\ rx_buf = [i \in 0..(RX_SIZE - 1) |-> 0]
    /\ rx_pos = 0
    /\ search = 0
    /\ pc = "loop"
    /\ ledc = servoDisable
    /\ dispatched = <<>>
    /\ ticks = 0
    /\ tick_dispatches = 0
    /\ elapsed_ms = 0
    /\ now_ms = 0
    /\ last_ms = 0
    /\ drove = FALSE
    /\ tripped = FALSE
    /\ fed = 0
    /\ resets = 0
    /\ last_reset = 0
    /\ max_write = -1
    /\ scan_iters = 0
    /\ tick_resets = 0
    /\ boundary_cut = FALSE

\* the state setup() leaves: millis() read 0 for last_cmd_time and
\* loop_rate_timer, then delay(100)
InitBoot ==
    /\ InitStatics
    /\ servo_angle_adc = 0
    /\ loop_rate_hz = 0
    /\ last_cmd_time = T32(0, 0)
    /\ last_telemetry_time = T32(0, 0)
    /\ last_heartbeat_time = T32(0, 0)
    /\ loop_count = 0
    /\ loop_rate_timer = T32(0, 0)
    /\ now = T32(0, 0)
    /\ clock = T32(0, 100)
    /\ tx = <<>>

\* the state of a controller that was booted as in InitBoot and has run
\* 20 ms passes without any input since, 1016 ms before millis() wraps:
\* the pass about to start is the one at 2^32 - 1016 = 100 + 20 * 214748309
InitLongRun ==
    /\ InitStatics
    /\ servo_angle_adc = 0
    /\ loop_rate_hz = 50
    /\ last_cmd_time = T32(0, 0)
    /\ last_telemetry_time = T32(65535, 64500)
    /\ last_heartbeat_time = T32(65535, 64240)
    /\ loop_count = 13
    /\ loop_rate_timer = T32(65535, 64240)
    /\ now = T32(65535, 64500)
    /\ clock = T32(65535, 64520)
    /\ tx = <<sendTelemetry(0, 50)>>

\* ------------------------------------------------------------ LoopBegin
\* loop(): now = millis(), then the drain loop of processSerial over the k
\* bytes that have arrived since the last pass (at most n, one of the chunk
\* sizes of the run); search = 0
LoopBegin ==
    /\ pc = "loop"
    /\ ticks < MaxTicks
    /\ \E n \in env.chunks :
          LET k == Min(n, Len(wire))
              st == Drain([buf |-> rx_buf, pos |-> rx_pos, fed |-> fed,
                     resets |-> resets, last_reset |-> last_reset,
                     max_write |-> max_write],
                    wire, 1, k)
          IN  /\ rx_buf' = st.buf
              /\ rx_pos' = st.pos
              /\ fed' = st.fed
              /\ resets' = st.resets
              /\ last_reset' = st.last_reset
              /\ max_write' = st.max_write
              /\ tick_resets' = st.resets - resets
              /\ boundary_cut' = (boundary_cut \/ (env.garbage # <<>> /\ st.fed = Len(env.garbage)))
              /\ wire' = SubSeq(wire, k + 1, Len(wire))
    /\ now' = clock
    /\ now_ms' = elapsed_ms
    /\ search' = 0
    /\ pc' = "scan"
    /\ ticks' = ticks + 1
    /\ tick_dispatches' = 0
    /\ scan_iters' = 0
    /\ drove' = FALSE
    /\ tripped' = FALSE
    /\ UNCHANGED <<ctl_vars, timer_vars, fault_code, clock, tx, env, dispatched,
                   elapsed_ms, last_ms>>

\* ------------------------------------------------------------- ScanStep
\* the cap of the iteration count: a scan that advances needs at most
\* RX_SIZE iterations
ScanCap == RX_SIZE + 2

\* one iteration of while (search + 4 < rx_pos): skip a byte that starts no
\* header, stop at an incomplete frame, or test the frame's checksum, hand
\* the frame to handlePacket (which reads millis() after d more ms) when the
\* test passes, and step over the frame
ScanStep ==
    /\ pc = "scan"
    /\ ScanGuard(search, rx_pos)
    /\ scan_iters < ScanCap
    /\ scan_iters' = scan_iters + 1
    /\ IF ~HeaderAt(rx_buf, search)
       THEN /\ search' = search + 1
            /\ pc' = "scan"
            /\ UNCHANGED <<ctl_vars, clock, dispatched, tick_dispatches,
                           elapsed_ms, last_ms>>
       ELSE LET cmd == rx_buf[search + 2]
                plen == rx_buf[search + 3]
                total == FrameTotal(plen)
            IN  IF NeedMore(search, total, rx_pos)
                THEN /\ pc' = "shift"
                     /\ UNCHANGED <<search, ctl_vars, clock, dispatched,
                                    tick_dispatches, elapsed_ms, last_ms>>
                ELSE /\ search' = U8(search + total)
                     /\ pc' = "scan"
                     /\ \E ok \in CrcOutcomes(rx_buf, search, plen),
                           p0 \in PayloadByte(rx_buf, search, 0),
                           p1 \in PayloadByte(rx_buf, search, 1),
                           d \in env.jit :
                          IF ok
                          THEN LET c == handlePacket(Ctl, cmd, p0, p1, plen,
                                                     Add32(clock, d))
                               IN  /\ Len(dispatched) < MaxDispatched
                                   /\ clock' = Add32(clock, d)
                                   /\ elapsed_ms' = elapsed_ms + d
                                   /\ last_ms' = elapsed_ms + d
                                   /\ servo_enabled' = c.servo_enabled
                                   /\ commanded_pos' = c.commanded_pos
                                   /\ gain' = c.gain
                                   /\ ledc' = c.ledc
                                   /\ last_cmd_time' = c.last_cmd_time
                                   /\ dispatched' = Append(dispatched,
                                        [cmd |-> cmd, len |-> plen,
                                         payload |-> BufSeq(rx_buf, search + 4,
                                            Min(plen, RX_SIZE - (search + 4)))])
                                   /\ tick_dispatches' = tick_dispatches + 1
                          ELSE UNCHANGED <<ctl_vars, clock, dispatched,
                                           tick_dispatches, elapsed_ms, last_ms>>
    /\ UNCHANGED <<timer_vars, fault_code, rx_vars, now, wire, tx, env, ticks,
                   now_ms, drove, tripped, drain_vars>>

\* ----------------------------------------------------------- LoopFinish
\* the end of processSerial (the scan loop is left, the rest of the buffer is
\* moved to the front) and the rest of loop(): timeout check, feedback
\* sample a, drive, telemetry, heartbeat, loop rate, and the pacing delay
\* after e ms of execution
LoopFinish ==
    /\ pc = "shift" \/ (pc = "scan" /\ ~ScanGuard(search, rx_pos))
    /\ LET remaining == U8(rx_pos - search + 256)
       IN  IF search > 0
           THEN /\ rx_buf' = Shift(rx_buf, search, remaining)
                /\ rx_pos' = remaining
           ELSE UNCHANGED rx_vars
    /\ LET trip == MonitorTrips(servo_enabled, now, last_cmd_time)
           enabled == servo_enabled /\ ~trip
           drive == DriveOn(servo_enabled, enabled)
       IN  /\ servo_enabled' = enabled
           /\ tripped' = trip
           /\ fault_code' = FaultAfter(trip, fault_code)
           /\ drove' = drive
           /\ ledc' = IF drive THEN servoWriteUs(positionToUs(commanded_pos, gain))
                      ELSE IF trip THEN servoDisable
                      ELSE ledc
           /\ \E a \in env.adc :
                 LET telemetry == IntervalElapsed(now, last_telemetry_time,
                                                  TELEMETRY_INTERVAL_MS)
                     heartbeat == IntervalElapsed(now, last_heartbeat_time,
                                                  HEARTBEAT_INTERVAL_MS)
                 IN  /\ servo_angle_adc' = a
                     /\ last_telemetry_time' =
                           IF telemetry THEN now ELSE last_telemetry_time
                     /\ last_heartbeat_time' =
                           IF heartbeat THEN now ELSE last_heartbeat_time
                     /\ tx' = (IF trip THEN <<sendFault(FAULT_SERIAL_TIMEOUT)>>
                               ELSE <<>>)
                              \o (IF telemetry
                                  THEN <<sendTelemetry(a, loop_rate_hz)>>
                                  ELSE <<>>)
                              \o (IF heartbeat
                                  THEN <<sendPacket(CMD_HEARTBEAT, <<>>, 0)>>
                                  ELSE <<>>)
    /\ IF IntervalElapsed(now, loop_rate_timer, LOOP_RATE_WINDOW_MS)
       THEN /\ loop_rate_hz' = (loop_count + 1) % 65536
            /\ loop_count' = 0
            /\ loop_rate_timer' = now
       ELSE /\ loop_count' = loop_count + 1
            /\ UNCHANGED <<loop_rate_hz, loop_rate_timer>>
    /\ \E e \in env.exec :
          LET cur == Add32(clock, e)
              elapsed == Sub32(cur, now)
              pause == IF Lt32(elapsed, LoopPeriodMs)
                       THEN LoopPeriodMs - elapsed[2] ELSE 0
          IN  /\ clock' = Add32(cur, pause)
              /\ elapsed_ms' = elapsed_ms + e + pause
    /\ search' = 0
    /\ pc' = "loop"
    /\ UNCHANGED <<commanded_pos, gain, last_cmd_time, now, wire, env,
                   dispatched, ticks, tick_dispatches, now_ms, last_ms,
                   drain_vars, scan_iters>>

Next == LoopBegin \/ ScanStep \/ LoopFinish

\* ------------------------------------------------------------ the host
\* the frame the host sends for a command: the wire format of protocol.h,
\* which is what sendPacket writes
Frame(cmd, payload) == sendPacket(cmd, payload, Len(payload))

\* the packet handlePacket is to receive for that frame
Packet(cmd, payload) == [cmd |-> cmd, len |-> Len(payload), payload |-> payload]

\* a frame whose trailing byte is not its checksum
CorruptFrame(cmd, payload) ==
    LET f == Frame(cmd, payload)
    IN  [f EXCEPT ![Len(f)] = Xor(f[Len(f)], 1)]

\* execution times of a pass in ms: within the period, and overruns that
\* bring the time since the last command to SERIAL_TIMEOUT_MS and just above
ExecTimes == {0, 980, 981}

\* ms that may pass between now = millis() and the millis() of handlePacket
DispatchDelays == {0, 1}

\* ------------------------------------------------- Spec: the link timeout
\* streams of well-formed frames: enable, steering, heartbeat, disable
LinkStreams ==
    {Frame(CMD_SET_ENABLE, <<1>>) \o Frame(CMD_HEARTBEAT, <<>>),
     Frame(CMD_SET_STEERING, <<0, 128>>) \o Frame(CMD_SET_ENABLE, <<1>>),
     Frame(CMD_SET_ENABLE, <<1>>) \o Frame(CMD_SET_ENABLE, <<0>>)}

\* the bytes that arrive between two passes: none, part of a frame, a frame
LinkChunks == {0, 3, 5, 6, 7}

Init ==
    /\ InitBoot \/ InitLongRun
    /\ wire \in LinkStreams
    /\ env = [exec |-> ExecTimes, jit |-> DispatchDelays, adc |-> AdcSamples,
              chunks |-> LinkChunks, stream |-> wire, garbage |-> <<>>,
              expect |-> <<>>]

Spec == Init /\ [][Next]_vars

\* an environment without timing variety: passes of exactly one period, no
\* time between now = millis() and handlePacket, one feedback sample
QuietEnv(chunks, stream, garbage, expect) ==
    [exec |-> {0}, jit |-> {0}, adc |-> {0}, chunks |-> chunks,
     stream |-> stream, garbage |-> garbage, expect |-> expect]

\* the stream has been delivered and the pass that drained the last of it
\* has ended
Delivered == wire = <<>> /\ pc = "loop" /\ ticks > 0

\* ------------------------------------------- SpecRoundTrip: one encoded frame
\* 16-byte payload buffers: the header bytes repeated, a mix depending on the
\* command, all ones
RoundTripPayloads(cmd) ==
    {[i \in 1..PROTO_MAX_PAYLOAD |->
         IF i % 2 = 1 THEN PROTO_HEADER_0 ELSE PROTO_HEADER_1],
     [i \in 1..PROTO_MAX_PAYLOAD |-> (37 * i + cmd) % 256],
     [i \in 1..PROTO_MAX_PAYLOAD |-> 255]}

\* the frame arrives in pieces of 7 bytes or at once
RoundTripChunks == {7, PROTO_MAX_PAYLOAD + 5}

InitRoundTrip ==
    /\ InitBoot
    /\ \E cmd \in 0..255, len \in 0..PROTO_MAX_PAYLOAD :
       \E p \in RoundTripPayloads(cmd) :
          /\ wire = sendPacket(cmd, p, len)
          /\ env = QuietEnv(RoundTripChunks, wire, <<>>,
                            <<[cmd |-> cmd, len |-> len,
                               payload |-> SubSeq(p, 1, len)]>>)

SpecRoundTrip == InitRoundTrip /\ [][Next]_vars

\* ---------------------------------------------- SpecBytes: hostile streams
\* n bytes that never form a header: AA 00 55 AA 00 55 ...
Garbage(n) == [i \in 1..n |-> <<PROTO_HEADER_0, 0, PROTO_HEADER_1>>[(i % 3) + 1]]

\* a header with length byte 251, 255 or 252 (5 + plen wraps to 0, 4, 1) and
\* bytes behind it; frames with a bad checksum between valid ones; garbage
\* beyond the capacity, then a frame; a header announcing more than the
\* buffer holds, then garbage beyond the capacity; noise before a frame
ByteStreams ==
    {<<PROTO_HEADER_0, PROTO_HEADER_1, 0, 251, 0>>
        \o Frame(CMD_SET_ENABLE, <<1>>),
     <<PROTO_HEADER_0, PROTO_HEADER_1, CMD_SET_ENABLE, 255, 1, 0, 0, 0>>
        \o Frame(CMD_HEARTBEAT, <<>>),
     <<PROTO_HEADER_0, PROTO_HEADER_1, CMD_SET_STEERING, 252, 7, 9>>
        \o Frame(CMD_SET_GAIN, <<30>>),
     CorruptFrame(CMD_SET_ENABLE, <<1>>) \o Frame(CMD_SET_GAIN, <<150>>)
        \o CorruptFrame(CMD_SET_STEERING, <<1, 2>>),
     Garbage(RX_SIZE + 6) \o Frame(CMD_SET_ENABLE, <<1>>),
     <<PROTO_HEADER_0, PROTO_HEADER_1, CMD_SET_STEERING, 60>>
        \o Garbage(RX_SIZE + 6),
     <<0, PROTO_HEADER_0>> \o Frame(CMD_HEARTBEAT, <<>>)
        \o CorruptFrame(CMD_HEARTBEAT, <<>>)}

\* bytes per pass: none, single bytes, a few, the capacity, everything
ByteChunks == {0, 1, 5, 8, RX_SIZE, 4 * RX_SIZE}

InitBytes ==
    /\ InitBoot
    /\ wire \in ByteStreams
    /\ env = QuietEnv(ByteChunks, wire, <<>>, <<>>)

SpecBytes == InitBytes /\ [][Next]_vars

\* ------------------------------------ SpecFrames: complete frames, any length
\* payloads of n bytes
Payload(n) == [i \in 1..n |-> (i * 3) % 256]

\* payload lengths: the ones the commands use, the maximum of the protocol,
\* one above it, and the longest that fits the buffer
FrameLengths == {0, 1, 2, PROTO_MAX_PAYLOAD, PROTO_MAX_PAYLOAD + 1, RX_SIZE - 5}

FrameStreams ==
    {Frame(c, Payload(n)) \o f :
        c \in {CMD_SET_STEERING, CMD_SET_ENABLE, CMD_HEARTBEAT},
        n \in FrameLengths,
        f \in {Frame(CMD_SET_GAIN, <<80>>), CorruptFrame(CMD_SET_GAIN, <<80>>)}}

FrameChunks == {3, RX_SIZE}

InitFrames ==
    /\ InitBoot
    /\ wire \in FrameStreams
    /\ env = QuietEnv(FrameChunks, wire, <<>>, <<>>)

SpecFrames == InitFrames /\ [][Next]_vars

\* ----------------- SpecResync: garbage, a frame, a corrupted frame, a frame
\* garbage before the first frame: a byte, the header bytes in the wrong
\* order, bytes ending in the first header byte, a longer run, the header
\* signature alone and with a command and a length after it, and a run that
\* fills the buffer together with the frames
ResyncGarbage ==
    {<<0>>, <<PROTO_HEADER_1, PROTO_HEADER_0>>, <<1, 2, 3, 4, PROTO_HEADER_0>>,
     Garbage(7), <<PROTO_HEADER_0, PROTO_HEADER_1>>,
     <<PROTO_HEADER_0, PROTO_HEADER_1, CMD_SET_ENABLE, 1>>,
     Garbage(RX_SIZE - 14)}

\* the commands of the valid, the corrupted and the second valid frame
ResyncFrames ==
    {<<[cmd |-> CMD_SET_ENABLE, payload |-> <<1>>],
       [cmd |-> CMD_SET_GAIN, payload |-> <<150>>],
       [cmd |-> CMD_HEARTBEAT, payload |-> <<>>]>>,
     <<[cmd |-> CMD_SET_STEERING, payload |-> <<PROTO_HEADER_0, PROTO_HEADER_1>>],
       [cmd |-> CMD_HEARTBEAT, payload |-> <<>>],
       [cmd |-> CMD_SET_ENABLE, payload |-> <<1>>]>>}

\* bytes per pass: none, a few, a frame's length and around it, or everything
ResyncChunks == (0..8) \cup {11, 13, 4 * RX_SIZE}

InitResync ==
    /\ InitBoot
    /\ \E g \in ResyncGarbage, f \in ResyncFrames :
          /\ wire = g \o Frame(f[1].cmd, f[1].payload)
                      \o CorruptFrame(f[2].cmd, f[2].payload)
                      \o Frame(f[3].cmd, f[3].payload)
          /\ env = QuietEnv(ResyncChunks, wire, g,
                            <<Packet(f[1].cmd, f[1].payload),
                              Packet(f[3].cmd, f[3].payload)>>)

SpecResync == InitResync /\ [][Next]_vars

\* ----------------------------- SpecOverflow: garbage beyond the capacity, a frame
OverflowGarbageLengths ==
    {RX_SIZE, RX_SIZE + 1, RX_SIZE + 6, 2 * RX_SIZE - 4, 2 * RX_SIZE + 2}

OverflowFrames ==
    {[cmd |-> CMD_SET_ENABLE, payload |-> <<1>>],
     [cmd |-> CMD_SET_STEERING, payload |-> <<0, 128>>]}

\* bytes per pass: none, two, around the capacity, around twice the
\* capacity, everything
OverflowChunks ==
    {0, 2, RX_SIZE, RX_SIZE + 1, RX_SIZE + 2, RX_SIZE + 6, 2 * RX_SIZE - 4,
     2 * RX_SIZE + 2, 4 * RX_SIZE}

InitOverflow ==
    /\ InitBoot
    /\ \E n \in OverflowGarbageLengths, f \in OverflowFrames :
          /\ wire = Garbage(n) \o Frame(f.cmd, f.payload)
          /\ env = QuietEnv(OverflowChunks, wire, Garbage(n),
                            <<Packet(f.cmd, f.payload)>>)

SpecOverflow == InitOverflow /\ [][Next]_vars

\* ------------------------------------------ SpecCommands: command sequences
\* a command id handlePacket has no case for
CMD_UNKNOWN == 66

\* sequences of checksum-valid frames: enable, steer, disable twice; enable
\* twice with gain and heartbeat; payloads too short and an unknown command,
\* from the disabled and from the enabled state; a payload longer than needed
CommandStreams ==
    {Frame(CMD_SET_ENABLE, <<1>>) \o Frame(CMD_SET_STEERING, <<0, 128>>)
        \o Frame(CMD_SET_ENABLE, <<0>>) \o Frame(CMD_SET_ENABLE, <<0>>),
     Frame(CMD_SET_ENABLE, <<1>>) \o Frame(CMD_SET_ENABLE, <<1>>)
        \o Frame(CMD_SET_GAIN, <<150>>) \o Frame(CMD_HEARTBEAT, <<>>),
     Frame(CMD_SET_STEERING, <<7>>) \o Frame(CMD_SET_GAIN, <<>>)
        \o Frame(CMD_SET_ENABLE, <<>>) \o Frame(CMD_UNKNOWN, <<1, 2>>),
     Frame(CMD_SET_ENABLE, <<1>>) \o Frame(CMD_SET_STEERING, <<7>>)
        \o Frame(CMD_TELEMETRY, <<1, 0, 50, 0>>) \o Frame(CMD_SET_ENABLE, <<>>),
     Frame(CMD_SET_ENABLE, <<2, 0>>) \o Frame(CMD_SET_STEERING, <<255, 127, 9>>)
        \o Frame(CMD_SET_ENABLE, <<0, 1>>) \o Frame(CMD_SET_ENABLE, <<1>>)}

\* bytes per pass: none, one frame, two frames, everything
CommandChunks == {0, 6, 13, 4 * RX_SIZE}

\* execution times of a pass in ms: within the period, or so long that the
\* next pass finds the timeout elapsed
CommandExecTimes == {0, SERIAL_TIMEOUT_MS + 1}

InitCommands ==
    /\ InitBoot
    /\ wire \in CommandStreams
    /\ env = [exec |-> CommandExecTimes, jit |-> DispatchDelays, adc |-> {0},
              chunks |-> CommandChunks, stream |-> wire, garbage |-> <<>>,
              expect |-> <<>>]

SpecCommands == InitCommands /\ [][Next]_vars

\* ------------------------------------- SpecGain: gain, steering, enable
SERVO_CENTER_US == 1500

\* steering payloads, low byte first: the ends of the int16 range, zero and
\* its neighbours, and values in between
SteeringSamples ==
    {<<lo, hi>> : lo \in {0, 1, 255},
                  hi \in {0, 1, 63, 64, 127, 128, 129, 192, 255}}

\* every gain byte, then a steering sample, then enable
GainStreams ==
    {Frame(CMD_SET_GAIN, <<v>>) \o Frame(CMD_SET_STEERING, p)
        \o Frame(CMD_SET_ENABLE, <<1>>) : v \in 0..255, p \in SteeringSamples}

\* bytes per pass: one frame and a byte, or everything
GainChunks == {7, 4 * RX_SIZE}

InitGain ==
    /\ InitBoot
    /\ wire \in GainStreams
    /\ env = QuietEnv(GainChunks, wire, <<>>, <<>>)

SpecGain == InitGain /\ [][Next]_vars

\* ------------------------------------ SpecBurst: frames back to back
RECURSIVE FramesOf(_)
\* the bytes of the frames that encode a sequence of packets
FramesOf(ps) ==
    IF ps = <<>> THEN <<>>
    ELSE Frame(Head(ps).cmd, Head(ps).payload) \o FramesOf(Tail(ps))

\* SetSteering(0x8000) then SetEnable(1)
SteerThenEnable ==
    <<Packet(CMD_SET_STEERING, <<0, 128>>), Packet(CMD_SET_ENABLE, <<1>>)>>

\* sequences of packets: the steering and enable pair; four commands;
\* enable, disable and heartbeats; a payload that holds the header bytes, a
\* full-length payload of an unknown command, enable
BurstPackets ==
    {SteerThenEnable,
     <<Packet(CMD_HEARTBEAT, <<>>), Packet(CMD_SET_GAIN, <<30>>),
       Packet(CMD_SET_STEERING, <<1, 2>>), Packet(CMD_SET_ENABLE, <<1>>)>>,
     <<Packet(CMD_SET_ENABLE, <<1>>), Packet(CMD_SET_ENABLE, <<0>>),
       Packet(CMD_HEARTBEAT, <<>>), Packet(CMD_HEARTBEAT, <<>>)>>,
     <<Packet(CMD_SET_STEERING, <<PROTO_HEADER_0, PROTO_HEADER_1>>),
       Packet(CMD_UNKNOWN, [i \in 1..PROTO_MAX_PAYLOAD |-> (i * 7) % 256]),
       Packet(CMD_SET_ENABLE, <<1>>)>>}

\* bytes per pass: none, a byte, parts of a frame, a frame, two frames,
\* everything
BurstChunks == {0, 1, 4, 6, 7, 13, 4 * RX_SIZE}

InitBurst ==
    /\ InitBoot
    /\ \E ps \in BurstPackets :
          /\ wire = FramesOf(ps)
          /\ env = [exec |-> {0}, jit |-> DispatchDelays, adc |-> {0},
                    chunks |-> BurstChunks, stream |-> wire,
                    garbage |-> <<>>, expect |-> ps]

SpecBurst == InitBurst /\ [][Next]_vars

\* ------------------------------------------------------------ the claims
\* the step that ends a pass of loop()
PassEnds == pc # "loop" /\ pc' = "loop"

\* the Fault packets among the packets a pass wrote
FaultPackets(out) == {i \in 1..Len(out) : out[i][3] = CMD_FAULT}

\* real time from the latest dispatched frame to the start of the pass
SinceLastFrame == now_ms - last_ms

\* C1: a pass that dispatches no frame and starts, with the servo enabled,
\* more than SERIAL_TIMEOUT_MS after the last dispatched frame disables the
\* servo, relaxes the actuator, sets fault = LinkTimeout and writes exactly one
\* Fault packet; any other pass without a dispatched frame (the timeout not
\* yet reached, or the servo already disabled) writes no Fault packet and
\* leaves enabled as it is
C1_TimeoutOnce ==
    [][(PassEnds /\ tick_dispatches = 0) =>
          IF servo_enabled /\ SinceLastFrame > SERIAL_TIMEOUT_MS
          THEN /\ ~servo_enabled'
               /\ ledc' = servoDisable
               /\ fault_code' = FAULT_SERIAL_TIMEOUT
               /\ Cardinality(FaultPackets(tx')) = 1
               /\ \A i \in FaultPackets(tx') :
                     tx'[i] = Frame(CMD_FAULT, <<FAULT_SERIAL_TIMEOUT>>)
          ELSE /\ FaultPackets(tx') = {}
               /\ servo_enabled' = servo_enabled]_vars

\* a pass without a frame has found the timeout elapsed and tripped
C1_Witness ==
    /\ pc = "loop"
    /\ tripped
    /\ tick_dispatches = 0
    /\ SinceLastFrame > SERIAL_TIMEOUT_MS
    /\ ~servo_enabled

\* C2: the timeout check trips only when more than SERIAL_TIMEOUT_MS have
\* really passed between the last dispatched frame and the start of the pass;
\* in particular never in a pass that dispatched a frame itself
C2_TripOnlyWhenStale ==
    tripped => (SinceLastFrame > SERIAL_TIMEOUT_MS /\ tick_dispatches = 0)

\* C3: a pass drives the servo only with the servo enabled and with at most
\* SERIAL_TIMEOUT_MS between the last dispatched frame and the start of the
\* pass: the timeout check precedes the drive step
C3_NoStaleDrive ==
    drove => /\ servo_enabled
             /\ ~tripped
             /\ ledc # servoDisable
             /\ SinceLastFrame <= SERIAL_TIMEOUT_MS

\* a pass has driven the servo exactly SERIAL_TIMEOUT_MS after the last frame
C3_Witness ==
    /\ pc = "loop"
    /\ drove
    /\ SinceLastFrame = SERIAL_TIMEOUT_MS

\* C7: once the bytes of sendPacket(cmd, payload, len) have been fed into the
\* empty receive buffer, exactly one packet has been dispatched, with the
\* same command id, length and payload bytes, and the buffer is empty
C7_RoundTrip ==
    Delivered => /\ dispatched = env.expect
                 /\ rx_pos = 0

\* a frame with a full 16-byte payload, fed at once, has been decoded
C7_Witness ==
    /\ Delivered
    /\ ticks = 1
    /\ Len(dispatched) = 1
    /\ dispatched[1].len = PROTO_MAX_PAYLOAD
    /\ dispatched = env.expect

\* C4: every iteration of the scan loop either advances the scan position
\* or leaves the loop, so the scan ends within the pass
C4_ScanAdvances ==
    [][(scan_iters' = scan_iters + 1) => (search' > search \/ pc' # "scan")]_vars

\* C8: no packet with a length above PROTO_MAX_PAYLOAD is handed to
\* handlePacket
C8_DispatchedLength ==
    \A i \in 1..Len(dispatched) : dispatched[i].len <= PROTO_MAX_PAYLOAD

\* the drain loop of the pass has ended and the scan has not begun
JustDrained == pc = "scan" /\ scan_iters = 0

\* C9: the write cursor never exceeds the capacity, no byte is stored at an
\* index beyond the array, and a byte that arrives with the cursor at capacity
\* is stored into the emptied buffer: after the drain the buffer holds exactly
\* the bytes from the one that made the latest reset on
C9_BufferBound ==
    /\ rx_pos <= RX_SIZE
    /\ max_write < RX_SIZE
    /\ search <= rx_pos
    /\ (JustDrained /\ tick_resets > 0) =>
          /\ rx_pos = fed - last_reset + 1
          /\ \A j \in 0..(rx_pos - 1) : rx_buf[j] = env.stream[last_reset + j]

\* a byte arrived with the cursor at capacity, and more bytes behind it
C9_Witness ==
    /\ JustDrained
    /\ tick_resets > 0
    /\ rx_pos > 1
    /\ max_write = RX_SIZE - 1

\* the frame at s is complete in the received bytes and its trailing byte is
\* not the CRC-8 of [command, length, payload]
BadFrameAt(s) ==
    /\ s + 4 < rx_pos
    /\ HeaderAt(rx_buf, s)
    /\ s + 5 + rx_buf[s + 3] <= rx_pos
    /\ rx_buf[s + 4 + rx_buf[s + 3]]
          # crc8(BufSeq(rx_buf, s + 2, 2 + rx_buf[s + 3]), 2 + rx_buf[s + 3])

\* C10: the iteration that meets a complete frame with a wrong checksum
\* dispatches nothing, changes none of commanded_pos, gain, servo_enabled,
\* fault_code, last_cmd_time, and goes on scanning behind the frame
C10_BadChecksumDropped ==
    [][(pc = "scan" /\ scan_iters' = scan_iters + 1 /\ BadFrameAt(search)) =>
          /\ UNCHANGED <<commanded_pos, gain, servo_enabled, fault_code,
                         last_cmd_time, ledc, dispatched>>
          /\ search' = search + 5 + rx_buf[search + 3]
          /\ pc' = "scan"]_vars

\* the scan stands right behind a complete frame with a wrong checksum
C10_Witness ==
    /\ pc = "scan"
    /\ \E s \in 0..(RX_SIZE - 1) :
          /\ BadFrameAt(s)
          /\ search = s + 5 + rx_buf[s + 3]
          /\ scan_iters > 0

\* the garbage holds the header signature AA 55 nowhere
NoSignature(g) ==
    \A i \in 1..(Len(g) - 1) :
        ~(g[i] = PROTO_HEADER_0 /\ g[i + 1] = PROTO_HEADER_1)

\* C5 as stated: garbage, a valid frame, a frame with a corrupted checksum and
\* another valid frame yield exactly the two valid frames' packets, in order,
\* however the stream is cut into passes
C5_ResyncAnyStream == Delivered => dispatched = env.expect

\* C5 as amended: the same, for garbage that holds no header signature and
\* passes that never overflow the buffer
C5_Resync ==
    (Delivered /\ NoSignature(env.garbage) /\ resets = 0) =>
        dispatched = env.expect

\* a stream with garbage, cut into three passes or more, gave the two packets
C5_Witness ==
    /\ Delivered
    /\ ticks >= 3
    /\ env.garbage # <<>>
    /\ NoSignature(env.garbage)
    /\ resets = 0
    /\ Len(dispatched) = 2
    /\ dispatched = env.expect

\* C6 as stated: after more bytes than the capacity without a header, and
\* so a reset, the valid frame that follows is dispatched exactly once
C6_OverflowAnyFrame == (Delivered /\ resets > 0) => dispatched = env.expect

\* C6 as amended: the same, when no reset falls inside the frame: the frame
\* starts in a later pass than the garbage ends in, or the byte that made the
\* latest reset is a garbage byte or the frame's first byte
C6_Overflow ==
    (/\ Delivered
     /\ resets > 0
     /\ boundary_cut \/ last_reset <= Len(env.garbage) + 1) =>
        dispatched = env.expect

\* the frame came in the pass whose drain was reset and has been dispatched
C6_Witness ==
    /\ Delivered
    /\ ticks = 1
    /\ resets > 0
    /\ last_reset <= Len(env.garbage) + 1
    /\ Len(dispatched) = 1
    /\ dispatched = env.expect

\* the step hands a frame to handlePacket
Dispatches == Len(dispatched') = Len(dispatched) + 1

\* the packet dispatched last
LastPacket(seq) == seq[Len(seq)]

\* C11: every dispatched frame sets last_cmd_time to the millis() of its
\* dispatch, whatever its command and length, and no other step changes
\* last_cmd_time
C11_ActivityTimer ==
    [][IF Dispatches
       THEN last_cmd_time' = clock'
       ELSE last_cmd_time' = last_cmd_time]_vars

\* a frame with an unknown command has just been dispatched, a millisecond
\* after the pass read now, and the timer holds the time of the dispatch
C11_Witness ==
    /\ pc = "scan"
    /\ tick_dispatches > 0
    /\ LastPacket(dispatched).cmd = CMD_UNKNOWN
    /\ last_cmd_time = clock
    /\ last_cmd_time # now

\* the packet is one handlePacket is to ignore: a payload shorter than the
\* command needs, or a command it does not know
Ineffective(p) ==
    \/ p.cmd = CMD_SET_STEERING /\ p.len < 2
    \/ p.cmd \in {CMD_SET_GAIN, CMD_SET_ENABLE} /\ p.len = 0
    \/ p.cmd \notin {CMD_SET_STEERING, CMD_SET_GAIN, CMD_SET_ENABLE,
                     CMD_HEARTBEAT}

\* C12: dispatching a frame with too short a payload or an unknown command
\* leaves commanded_pos, gain, servo_enabled, fault_code and the servo output
\* as they are and sends nothing; the activity timer is set
C12_ShortPayloadNoEffect ==
    [][(Dispatches /\ Ineffective(LastPacket(dispatched'))) =>
          /\ UNCHANGED <<commanded_pos, gain, servo_enabled, fault_code, ledc, tx>>
          /\ last_cmd_time' = clock']_vars

\* SetSteering with one payload byte has just been dispatched to the enabled
\* controller
C12_Witness ==
    /\ pc = "scan"
    /\ tick_dispatches > 0
    /\ LastPacket(dispatched).cmd = CMD_SET_STEERING
    /\ LastPacket(dispatched).len = 1
    /\ servo_enabled
    /\ commanded_pos = 0

\* C13: gain is within 0..100 in every state, and a dispatched SetGain with
\* payload byte v leaves gain = v when v <= 100 and gain = 100 otherwise
C13_GainClamp ==
    /\ [](gain \in 0..100)
    /\ [][(/\ Dispatches
           /\ LastPacket(dispatched').cmd = CMD_SET_GAIN
           /\ LastPacket(dispatched').len >= 1) =>
             gain' = IF LastPacket(dispatched').payload[1] <= 100
                     THEN LastPacket(dispatched').payload[1]
                     ELSE 100]_vars

\* SetGain(150) has just been dispatched and gain is 100
C13_Witness ==
    /\ pc = "scan"
    /\ tick_dispatches > 0
    /\ LastPacket(dispatched) = Packet(CMD_SET_GAIN, <<150>>)
    /\ gain = 100

\* C14: the pulse width positionToUs computes for the commanded position and
\* the gain lies within SERVO_MIN_US..SERVO_MAX_US, is the midpoint when the
\* gain is 0, and is the width a pass that drives the servo has written
C14_PulseWidth ==
    LET us == positionToUs(commanded_pos, gain)
    IN  /\ us >= SERVO_MIN_US
        /\ us <= SERVO_MAX_US
        /\ gain = 0 => us = SERVO_CENTER_US
        /\ 2 * SERVO_CENTER_US = SERVO_MIN_US + SERVO_MAX_US
        /\ (drove /\ pc = "loop") => ledc = microsToTicks(us)

\* a pass has driven the servo with gain 0 and the lowest commanded position
C14_Witness ==
    /\ pc = "loop"
    /\ drove
    /\ gain = 0
    /\ commanded_pos = -32768
    /\ ledc = microsToTicks(SERVO_CENTER_US)

\* the packet is SetEnable with a payload whose first byte is zero
IsDisable(p) == p.cmd = CMD_SET_ENABLE /\ p.len >= 1 /\ p.payload[1] = 0

\* C15: SetEnable(0) dispatched right after SetEnable(0) changes none of
\* servo_enabled, commanded_pos, gain, fault_code and the servo output; and in
\* every state handlePacket applied twice to SetEnable(0) gives what it gives
\* applied once
C15_DisableIdempotent ==
    /\ [](LET once == handlePacket(Ctl, CMD_SET_ENABLE, 0, 0, 1, clock)
          IN  handlePacket(once, CMD_SET_ENABLE, 0, 0, 1, clock) = once)
    /\ [][(/\ Dispatches
           /\ Len(dispatched) > 0
           /\ IsDisable(LastPacket(dispatched))
           /\ IsDisable(LastPacket(dispatched'))) =>
             UNCHANGED <<servo_enabled, commanded_pos, gain, fault_code,
                         ledc>>]_vars

\* enable, steering and two SetEnable(0) in a row have been dispatched
C15_Witness ==
    /\ pc = "scan"
    /\ tick_dispatches > 0
    /\ Len(dispatched) = 4
    /\ IsDisable(dispatched[3])
    /\ IsDisable(dispatched[4])
    /\ commanded_pos = -32768
    /\ ~servo_enabled
    /\ ledc = servoDisable

\* C16: servo_enabled goes from false to true only in a step that dispatches
\* SetEnable with a payload whose first byte is not zero
C16_NoAutonomousRearm ==
    [][(~servo_enabled /\ servo_enabled') =>
          /\ Dispatches
          /\ LastPacket(dispatched').cmd = CMD_SET_ENABLE
          /\ LastPacket(dispatched').len >= 1
          /\ LastPacket(dispatched').payload[1] # 0]_vars

\* after a timeout, SetEnable(1) has just armed the controller again
C16_Witness ==
    /\ pc = "scan"
    /\ tick_dispatches > 0
    /\ Len(dispatched) = 2
    /\ LastPacket(dispatched) = Packet(CMD_SET_ENABLE, <<1>>)
    /\ fault_code = FAULT_SERIAL_TIMEOUT
    /\ servo_enabled

\* C17: between two passes of loop(), and after setup(), a disabled
\* controller has the servo output relaxed
C17_DisabledRelaxed == (pc = "loop" /\ ~servo_enabled) => ledc = servoDisable

\* a pass has driven the servo, a later pass has dispatched two SetEnable(0)
\* and ended
C17_Witness ==
    /\ pc = "loop"
    /\ ticks >= 2
    /\ tick_dispatches = 2
    /\ Len(dispatched) = 4
    /\ IsDisable(dispatched[3])
    /\ IsDisable(dispatched[4])
    /\ fault_code = FAULT_NONE
    /\ ~servo_enabled
    /\ ledc = servoDisable

\* C20: fault_code is FAULT_NONE or FAULT_SERIAL_TIMEOUT, and once it is
\* FAULT_SERIAL_TIMEOUT no step changes it
C20_FaultSticky ==
    /\ [](fault_code \in {FAULT_NONE, FAULT_SERIAL_TIMEOUT})
    /\ [][fault_code = FAULT_SERIAL_TIMEOUT =>
             fault_code' = FAULT_SERIAL_TIMEOUT]_vars

\* a pass has ended with the controller armed again after a timeout, the
\* servo driven and the fault still set
C20_Witness ==
    /\ pc = "loop"
    /\ drove
    /\ servo_enabled
    /\ fault_code = FAULT_SERIAL_TIMEOUT

\* the scan loop of the current pass has been left
ScanDone == pc = "shift" \/ (pc = "scan" /\ ~ScanGuard(search, rx_pos))

\* the number of frames of the stream that have arrived whole
FramesArrived ==
    Cardinality({k \in 1..Len(env.expect) :
                    Len(FramesOf(SubSeq(env.expect, 1, k))) <= fed})

C19_ReadsInsideReceived ==
    [][(pc = "scan" /\ scan_iters' = scan_iters + 1) =>
          ReadsUpTo(rx_buf, search, rx_pos) < rx_pos]_vars
====
